---------------------------- MODULE Spec2Model ----------------------------
(***************************************************************************)
(* A model of verzettler's note collection (Zettelkasten), of the          *)
(* line-oriented rewrite pipeline (DefaultTransformer), and of the         *)
(* formatting and reading of tag lines.                                    *)
(*                                                                         *)
(* A zettel id is a 14-digit string.  The model writes the id             *)
(* "00000000000000" as 0 and the id "2023010100000n" as n, so that the     *)
(* numeric order of the model's ids is the string order of the ids.        *)
(***************************************************************************)
EXTENDS Integers, Sequences, FiniteSets, TLC

\* ------------------------------------------------------------------ bounds
\* Ids range over 0..MaxZid.
MaxZid == 2
\* Total number of link occurrences held by the notes a collection is
\* constructed from.
MaxLinks == 3
\* Total number of link occurrences held by the registered notes when notes
\* are registered one call at a time, between calls of finalize().
MaxLifeLinks == 1
\* Number of lines of the file of the note that is transformed.
MaxLines == 3

\* ------------------------------------------------------- program constants
\* The default mother of _update_depths: "00000000000000".
ROOT == 0
\* `depth is None`: no depth has been assigned.
NoDepth == -1

Zids == 0..MaxZid

RECURSIVE SeqsUpTo(_, _)
\* All sequences over S of length at most n.
SeqsUpTo(S, n) ==
    IF n = 0 THEN {<<>>}
    ELSE LET shorter == SeqsUpTo(S, n - 1)
         IN  shorter \cup {Append(s, x) : s \in {t \in shorter : Len(t) = n - 1}, x \in S}

LinkLists == SeqsUpTo(Zids, MaxLifeLinks)

Range(s) == {s[i] : i \in 1..Len(s)}

RECURSIVE LinkMaps(_, _)
\* The links of the notes with ids in S, holding at most n link occurrences
\* in total; ids outside S map to the empty list.
LinkMaps(S, n) ==
    IF S = {} THEN {[z \in Zids |-> <<>>]}
    ELSE LET z == CHOOSE x \in S : TRUE
         IN  UNION {{[f EXCEPT ![z] = ls] : f \in LinkMaps(S \ {z}, n - Len(ls))} :
                    ls \in SeqsUpTo(Zids, n)}

RECURSIVE SumLen(_, _)
SumLen(f, S) ==
    IF S = {} THEN 0
    ELSE LET z == CHOOSE x \in S : TRUE
         IN  Len(f[z]) + SumLen(f, S \ {z})

VARIABLES
    zid2zettel,   \* the set of registered ids (keys of Zettelkasten.zid2zettel)
    links,        \* links[z]: Zettel.links of the note registered under z
    depth,        \* depth[z]: its depth, NoDepth for None
    backlinks,    \* backlinks[z]: its backlinks set
    finalized,    \* Zettelkasten._finalized
    pc,           \* "idle", "depths" while finalize() runs _update_depths, "read"
    stack,        \* the call stack of _update_depths, innermost frame last
    errors,       \* errors[z]: logger.error calls naming z since finalize() began
    expanded,     \* expanded[z]: times the daughters loop of z was entered since then
    pass,         \* what the last completed finalize() started from and produced
    content,      \* the text of the note's file, as its lines
    note_tags,    \* Note.tags, as analyze_file left them
    tag_transformer, \* DefaultTransformer.tag_transformer
    md_lines,     \* md_reader.lines: the line records, texts as mutated so far
    line_i,       \* transform's loop index i, counted from 1: the next line
    out_lines,    \* transform's out_lines
    tpc,          \* "new", "ready", "loop" inside transform, "done" after the last write
    run,          \* the number of transform_write calls completed
    first_out,    \* the text the first transform returned
    reader,       \* the method that called finalize(): "none" for a direct call
    overwritten,  \* the last note replaced by a registration, and the links lost with it
    tags_in,      \* a set of tags, each a string of characters
    tag_line,     \* the line _format_tags made of it
    tags_out,     \* the tags read from that line
    tag_pc        \* "start", "formatted", "read"

gvars == <<zid2zettel, links, depth, backlinks, finalized, pc, stack, errors,
           expanded, pass>>

pvars == <<content, note_tags, tag_transformer, md_lines, line_i, out_lines, tpc, run,
           first_out>>

lvars == <<reader, overwritten>>

tvars == <<tags_in, tag_line, tags_out, tag_pc>>

vars == <<gvars, pvars, lvars, tvars>>

\* No note is being transformed.
NoPipeline ==
    /\ content = <<>>
    /\ note_tags = {}
    /\ tag_transformer = "identity"
    /\ md_lines = <<>>
    /\ line_i = 1
    /\ out_lines = <<>>
    /\ tpc = "ready"
    /\ run = 0
    /\ first_out = <<>>

\* No method is running and no note has been replaced.
NoReader ==
    /\ reader = "none"
    /\ overwritten = [zid |-> NoDepth, lost |-> {}]

\* No tags are being formatted.
NoTagTrip ==
    /\ tags_in = {}
    /\ tag_line = <<>>
    /\ tags_out = {}
    /\ tag_pc = "start"

\* No finalize() has run since the last registration.
NoPass == [fresh |-> FALSE, again |-> FALSE,
           depth0 |-> [z \in Zids |-> NoDepth], backlinks0 |-> [z \in Zids |-> {}]]

\* Zettelkasten.__init__(zettels): add_zettels registers each given zettel
\* under its zid; the notes are freshly constructed, without depth or
\* backlinks.
Init ==
    /\ zid2zettel \in SUBSET Zids
    /\ links \in LinkMaps(zid2zettel, MaxLinks)
    /\ depth = [z \in Zids |-> NoDepth]
    /\ backlinks = [z \in Zids |-> {}]
    /\ finalized = FALSE
    /\ pc = "idle"
    /\ stack = <<>>
    /\ errors = [z \in Zids |-> 0]
    /\ expanded = [z \in Zids |-> 0]
    /\ pass = NoPass
    /\ NoPipeline
    /\ NoReader
    /\ NoTagTrip

\* Zettelkasten.__init__ with zettels=None.
InitEmpty ==
    /\ zid2zettel = {}
    /\ links = [z \in Zids |-> <<>>]
    /\ depth = [z \in Zids |-> NoDepth]
    /\ backlinks = [z \in Zids |-> {}]
    /\ finalized = FALSE
    /\ pc = "idle"
    /\ stack = <<>>
    /\ errors = [z \in Zids |-> 0]
    /\ expanded = [z \in Zids |-> 0]
    /\ pass = NoPass
    /\ NoPipeline
    /\ NoReader
    /\ NoTagTrip

\* ------------------------------------------------------------ registration
\* No note has been replaced.
NoOverwrite == [zid |-> NoDepth, lost |-> {}]

\* What the registration of a note with id z and links ls replaces: the id,
\* and the link targets of the note held under z that ls lacks.
Overwritten(z, ls) ==
    IF z \in zid2zettel
    THEN [zid |-> z, lost |-> Range(links[z]) \ Range(ls)]
    ELSE overwritten

\* A variant of the dictionary that keeps the first value stored under a key.
SetDefault(d, z, ls) == IF z \in zid2zettel THEN d ELSE [d EXCEPT ![z] = ls]

\* self.zid2zettel[zettel.zid] = zettel, for the links of the notes.
SetItem(d, z, ls) == [d EXCEPT ![z] = ls]

\* add_zettels([zettel]) for a freshly constructed zettel with id z and the
\* given links: a new note object has no depth and no backlinks yet, and it
\* replaces whatever note was registered under z.  add_zettels(zettels) with
\* several zettels is this step once per zettel, in order.
Register(z, ls) ==
    /\ pc = "idle"
    /\ SumLen(links, zid2zettel \ {z}) + Len(ls) <= MaxLifeLinks
    /\ finalized' = FALSE
    /\ zid2zettel' = zid2zettel \cup {z}
    /\ links' = SetItem(links, z, ls)
    /\ depth' = [depth EXCEPT ![z] = NoDepth]
    /\ backlinks' = [backlinks EXCEPT ![z] = {}]
    /\ pass' = NoPass
    /\ UNCHANGED <<pc, stack, errors, expanded, reader>>
    /\ UNCHANGED <<pvars, tvars>>

\* add_zettels at any time.
AddZettels(z, ls) ==
    /\ Register(z, ls)
    /\ UNCHANGED overwritten

\* add_zettels while the collection is built, before finalize() is called;
\* overwritten keeps what the call replaced.
AddZettelsFirst(z, ls) ==
    /\ ~finalized
    /\ Register(z, ls)
    /\ overwritten' = Overwritten(z, ls)

\* ---------------------------------------------------------------- finalize
\* The first loop of _update_backlinks: every registered note's backlinks are
\* reset to the empty set.
ResetBacklinks == [z \in Zids |-> IF z \in zid2zettel THEN {} ELSE backlinks[z]]

\* The try/except of _update_backlinks for one link of note a: the target's
\* backlinks gain a's zid, or the KeyError is logged.  r holds the backlinks
\* and the logger.error counts so far.
AddBacklink(r, a, linked_zid) ==
    IF linked_zid \in zid2zettel
    THEN [r EXCEPT !.backlinks[linked_zid] = @ \cup {a}]
    ELSE [r EXCEPT !.errors[linked_zid] = @ + 1]

RECURSIVE LinksLoopAbort(_, _, _)
\* A variant whose try/except encloses the whole loop: the first KeyError
\* ends the note's links.
LinksLoopAbort(r, a, i) ==
    IF i > Len(links[a]) THEN r
    ELSE IF links[a][i] \notin zid2zettel THEN AddBacklink(r, a, links[a][i])
    ELSE LinksLoopAbort(AddBacklink(r, a, links[a][i]), a, i + 1)

RECURSIVE LinksLoop(_, _, _)
\* `for linked_zid in zettel.links`, from the i-th link on.
LinksLoop(r, a, i) ==
    IF i > Len(links[a]) THEN r
    ELSE LinksLoop(AddBacklink(r, a, links[a][i]), a, i + 1)

RECURSIVE ZettelsLoop(_, _)
\* `for zettel in self.zettels`, over the notes still to do.  The code takes
\* them in the dictionary's order; the sets and counts built do not depend
\* on the order.
ZettelsLoop(r, todo) ==
    IF todo = {} THEN r
    ELSE LET a == CHOOSE x \in todo : TRUE
         IN  ZettelsLoop(LinksLoop(r, a, 1), todo \ {a})

\* _update_backlinks: the backlinks it leaves and the errors it logs.
UpdateBacklinks ==
    ZettelsLoop([backlinks |-> ResetBacklinks, errors |-> [z \in Zids |-> 0]],
                zid2zettel)

Frame(mother, mother_depth) ==
    [mother |-> mother, mother_depth |-> mother_depth, i |-> 1, at |-> "enter"]

\* finalize() up to the body of _update_depths: _update_backlinks(), then the
\* call _update_depths() with its default arguments.
BeginFinalize ==
    /\ backlinks' = UpdateBacklinks.backlinks
    /\ errors' = UpdateBacklinks.errors
    /\ expanded' = [z \in Zids |-> 0]
    /\ stack' = <<Frame(ROOT, 0)>>
    /\ pc' = "depths"
    /\ pass' = [fresh |-> \A z \in zid2zettel : depth[z] = NoDepth,
                again |-> finalized,
                depth0 |-> IF finalized THEN depth ELSE NoPass.depth0,
                backlinks0 |-> IF finalized THEN backlinks ELSE NoPass.backlinks0]
    /\ UNCHANGED <<zid2zettel, links, depth, finalized>>

\* finalize(), called directly.
FinalizeStart ==
    /\ pc = "idle"
    /\ BeginFinalize
    /\ UNCHANGED <<pvars, lvars, tvars>>

\* A variant in which the flag is never looked at.
NeverFinalize == FALSE

\* `if not self._finalized` of transform_all and dot_graph.
NeedsFinalize == ~finalized

\* transform_all or dot_graph up to its loop over the notes: finalize() if
\* the flag is clear.
CallReader ==
    /\ pc = "idle"
    /\ IF NeedsFinalize
       THEN BeginFinalize
       ELSE /\ pc' = "read"
            /\ UNCHANGED <<zid2zettel, links, depth, backlinks, finalized, stack,
                           errors, expanded, pass>>
    /\ UNCHANGED <<overwritten, pvars, tvars>>

\* transform_all is called.
TransformAll ==
    /\ reader' = "transform_all"
    /\ CallReader

\* dot_graph is called.
DotGraph ==
    /\ reader' = "dot_graph"
    /\ CallReader

\* `for zettel in self.zettels` of transform_all and dot_graph: the notes are
\* read, the method returns.
ReadNotes ==
    /\ pc = "read"
    /\ pc' = "idle"
    /\ reader' = "none"
    /\ UNCHANGED <<zid2zettel, links, depth, backlinks, finalized, stack, errors,
                   expanded, pass, overwritten>>
    /\ UNCHANGED <<pvars, tvars>>

Top == stack[Len(stack)]
Pop == SubSeq(stack, 1, Len(stack) - 1)
SetTop(f) == [stack EXCEPT ![Len(stack)] = f]

\* A variant with no guard: every call expands its mother.
NeverVisited(mother, mother_depth) == FALSE

\* A variant that revisits a mother reached again at a smaller depth.
AlreadyVisitedShallower(mother, mother_depth) ==
    depth[mother] # NoDepth /\ depth[mother] <= mother_depth

\* The guard of _update_depths: a mother that already has a depth returns.
AlreadyVisited(mother, mother_depth) == depth[mother] # NoDepth

\* _update_depths up to its loop: the lookup of mother, the guard, the
\* assignment of mother's depth.
Enter ==
    /\ pc = "depths" /\ stack # <<>> /\ Top.at = "enter"
    /\ LET m == Top.mother IN
       IF m \notin zid2zettel
       THEN /\ errors' = [errors EXCEPT ![m] = @ + 1]
            /\ stack' = Pop
            /\ UNCHANGED <<depth, expanded>>
       ELSE IF AlreadyVisited(m, Top.mother_depth)
       THEN /\ stack' = Pop
            /\ UNCHANGED <<depth, errors, expanded>>
       ELSE /\ depth' = [depth EXCEPT ![m] = Top.mother_depth]
            /\ expanded' = [expanded EXCEPT ![m] = @ + 1]
            /\ stack' = SetTop([Top EXCEPT !.at = "loop"])
            /\ UNCHANGED errors
    /\ UNCHANGED <<zid2zettel, links, backlinks, finalized, pc, pass>>
    /\ UNCHANGED <<pvars, lvars, tvars>>

\* A variant that leaves the loop one daughter early.
LoopDoneEarly(f) == f.i >= Len(links[f.mother])

\* `for daughter in mother.links` has no daughter left for frame f.
LoopDone(f) == f.i > Len(links[f.mother])

\* `for daughter in mother.links`: the recursive call for the next daughter,
\* or the return once the links are exhausted.
Recurse ==
    /\ pc = "depths" /\ stack # <<>> /\ Top.at = "loop"
    /\ IF LoopDone(Top)
       THEN stack' = Pop
       ELSE stack' = Append(SetTop([Top EXCEPT !.at = "assign"]),
                            Frame(links[Top.mother][Top.i], Top.mother_depth + 1))
    /\ UNCHANGED <<zid2zettel, links, depth, backlinks, finalized, pc, errors,
                   expanded, pass>>
    /\ UNCHANGED <<pvars, lvars, tvars>>

\* The depth the statement after the recursive call leaves on the daughter.
DaughterDepth(daughter, mother_depth) == mother_depth + 1

\* After the recursive call returned: self.zid2zettel[daughter].depth =
\* mother_depth + 1, or the KeyError's logger.error.
AssignDaughter ==
    /\ pc = "depths" /\ stack # <<>> /\ Top.at = "assign"
    /\ LET d == links[Top.mother][Top.i] IN
       IF d \in zid2zettel
       THEN /\ depth' = [depth EXCEPT ![d] = DaughterDepth(d, Top.mother_depth)]
            /\ UNCHANGED errors
       ELSE /\ errors' = [errors EXCEPT ![d] = @ + 1]
            /\ UNCHANGED depth
    /\ stack' = SetTop([Top EXCEPT !.i = @ + 1, !.at = "loop"])
    /\ UNCHANGED <<zid2zettel, links, backlinks, finalized, pc, expanded, pass>>
    /\ UNCHANGED <<pvars, lvars, tvars>>

\* The outermost _update_depths returned: self._finalized = True, and
\* finalize() returns to its caller.
FinalizeEnd ==
    /\ pc = "depths" /\ stack = <<>>
    /\ finalized' = TRUE
    /\ pc' = IF reader = "none" THEN "idle" ELSE "read"
    /\ UNCHANGED <<zid2zettel, links, depth, backlinks, stack, errors, expanded,
                   pass>>
    /\ UNCHANGED <<pvars, lvars, tvars>>

\* finalize(), called any number of times on a constructed collection.
Next ==
    \/ FinalizeStart
    \/ Enter
    \/ Recurse
    \/ AssignDaughter
    \/ FinalizeEnd

Spec == Init /\ [][Next]_vars

\* add_zettels and finalize() in any order, starting from an empty collection.
NextLife ==
    \/ \E z \in Zids, ls \in LinkLists : AddZettels(z, ls)
    \/ Next

SpecLife == InitEmpty /\ [][NextLife]_vars

\* The collection is built by add_zettels calls, then finalize() is called,
\* any number of times.
NextRegister ==
    \/ \E z \in Zids, ls \in LinkLists : AddZettelsFirst(z, ls)
    \/ Next

SpecRegister == InitEmpty /\ [][NextRegister]_vars

\* add_zettels, finalize, transform_all and dot_graph in any order, starting
\* from an empty collection.
NextLifecycle ==
    \/ \E z \in Zids, ls \in LinkLists : AddZettels(z, ls)
    \/ TransformAll
    \/ DotGraph
    \/ ReadNotes
    \/ Next

SpecLifecycle == InitEmpty /\ [][NextLifecycle]_vars


\* finalize() runs to its end once called: the interpreter executes the
\* statements of a call one after another.
FairSpec == Spec /\ WF_vars(Enter \/ Recurse \/ AssignDaughter \/ FinalizeEnd)

\* ---------------------------------------------------------------- text
\* A text is a sequence of tokens; a token [k, v] stands for a fixed piece of
\* text:
\*   "nl"        "\n"                  "sp"      " "
\*   "word"      a word of prose       "h1"      "# "     "h2"   "## "
\*   "eq"        "==="                 "dash"    "---"    "fence" "```"
\*   "tagmark"   "Tags: " (v = 0) or "tags: " (v = 1)
\*   "tag"       "#" and the name of tag v (names ordered as their numbers)
\*   "link"      "[[zid]]" for the id v
\*   "autogen"   ' [title](relpath "autogen")' for the note with id v
\*   "bullet"    "* "                  "backlinks"  "Backlinks"
Tok(k, v) == [k |-> k, v |-> v]
NL == Tok("nl", 0)
SP == Tok("sp", 0)
WORD == Tok("word", 0)

\* An id that is registered in no collection of the model.
Dangling == MaxZid + 1

\* The note whose file is transformed.
Nid == ROOT

\* The lines a note's file is drawn from.
BlankLine == <<NL>>
SpacesLine == <<SP, NL>>
TextLine == <<WORD, NL>>
TitleLine == <<Tok("h1", 0), WORD, NL>>
EqLine == <<Tok("eq", 0), NL>>
DashLine == <<Tok("dash", 0), NL>>
FenceLine == <<Tok("fence", 0), NL>>
TagsLine == <<Tok("tagmark", 1), Tok("tag", 2), SP, Tok("tag", 1), NL>>
NoTagsLine == <<Tok("tagmark", 0), NL>>
LinkLine == <<Tok("link", 1), SP, Tok("link", Dangling), NL>>
TwoLinksLine == <<Tok("link", 1), SP, Tok("link", 1), NL>>

LineKinds ==
    {BlankLine, SpacesLine, TextLine, TitleLine, EqLine, DashLine, FenceLine,
     TagsLine, NoTagsLine, LinkLine, TwoLinksLine}

\* The files: at most MaxLines lines, the last one with or without its "\n".
Files ==
    LET full == SeqsUpTo(LineKinds, MaxLines)
    IN  full \cup {[f EXCEPT ![Len(f)] = SubSeq(@, 1, Len(@) - 1)] :
                     f \in {g \in full : g # <<>> /\ g[Len(g)] = TextLine}}

RECURSIVE Flatten(_)
\* "".join(lines)
Flatten(ls) == IF ls = <<>> THEN <<>> ELSE Head(ls) \o Flatten(Tail(ls))

RECURSIVE SplitLines(_, _)
\* The lines of a text, each with its "\n": cur is the line begun so far.
SplitLines(text, cur) ==
    IF text = <<>> THEN (IF cur = <<>> THEN <<>> ELSE <<cur>>)
    ELSE IF Head(text).k = "nl"
         THEN <<Append(cur, Head(text))>> \o SplitLines(Tail(text), <<>>)
         ELSE SplitLines(Tail(text), Append(cur, Head(text)))

\* str.startswith for the pieces of text the code tests.
StartsWith(text, k) == text # <<>> /\ text[1].k = k

\* text.strip() is empty.
IsBlank(text) == \A n \in 1..Len(text) : text[n].k \in {"nl", "sp"}

\* "tags: " in text.lower()
HasTagMark(text) == \E n \in 1..Len(text) : text[n].k = "tagmark"

\* text.endswith("\n")
EndsWithNL(text) == text # <<>> /\ text[Len(text)].k = "nl"

\* The tags tag_regex finds in the heading markers: "#" followed by no
\* non-blank character in "# ", by "#" in "## ".  As tag names they are the
\* empty name and the name "#", which sort before every other name.
EmptyTag == -2
HashTag == -1

\* tag_regex.findall(line), each match without its "#".
ReadTags(text) ==
    {text[n].v : n \in {m \in 1..Len(text) : text[m].k = "tag"}}
    \cup (IF \E n \in 1..Len(text) : text[n].k = "h1" THEN {EmptyTag} ELSE {})
    \cup (IF \E n \in 1..Len(text) : text[n].k = "h2" THEN {HashTag} ELSE {})

RECURSIVE Sorted(_)
\* sorted(list(S))
Sorted(S) ==
    IF S = {} THEN <<>>
    ELSE LET m == CHOOSE x \in S : \A y \in S : x <= y
         IN  <<m>> \o Sorted(S \ {m})

RECURSIVE JoinTags(_)
\* " ".join("#" + tag for tag in ts)
JoinTags(ts) ==
    IF ts = <<>> THEN <<>>
    ELSE IF Len(ts) = 1 THEN <<Tok("tag", ts[1])>>
    ELSE <<Tok("tag", ts[1]), SP>> \o JoinTags(Tail(ts))

\* DefaultTransformer._format_tags
FormatTags(tags) == <<Tok("tagmark", 0)>> \o JoinTags(Sorted(tags)) \o <<NL>>

\* DefaultTransformer._format_link
FormatLink(zid) ==
    IF zid \in zid2zettel
    THEN <<Tok("link", zid), Tok("autogen", zid)>>
    ELSE <<Tok("link", zid)>>

\* Note.autogen_link_regex.sub("", text)
RemoveAutogen(text) == SelectSeq(text, LAMBDA t : t.k # "autogen")

\* Note.id_link_regex_no_group.findall(text)
FindLinks(text) == SelectSeq(text, LAMBDA t : t.k = "link")

RECURSIVE Replace(_, _)
\* text.replace(link, self._format_link(note, zid)): every occurrence of the
\* link in the text is replaced.
Replace(text, link) ==
    IF text = <<>> THEN <<>>
    ELSE (IF Head(text) = link THEN FormatLink(link.v) ELSE <<Head(text)>>)
         \o Replace(Tail(text), link)

RECURSIVE AddNewLinks(_, _)
\* `for link in links`: one replace per link found.
AddNewLinks(text, found) ==
    IF found = <<>> THEN text
    ELSE AddNewLinks(Replace(text, Head(found)), Tail(found))

\* The tag transformers of the model; each is idempotent.
TagTransformers == {"identity", "add"}
TagTransform(tags) ==
    IF tag_transformer = "identity" THEN tags ELSE tags \cup {3}

RECURSIVE AnalyzeTags(_, _)
\* Zettel.analyze_file, the tags: every line that contains "tags: " sets
\* self.tags, so the last such line decides.
AnalyzeTags(file, tags) ==
    IF file = <<>> THEN tags
    ELSE AnalyzeTags(Tail(file),
                     IF HasTagMark(Head(file)) THEN ReadTags(Head(file)) ELSE tags)

\* ------------------------------------------------------------ line model
\* The heading level of a line, 0 for a line that is no heading.
HeadingLevel(text) ==
    IF StartsWith(text, "h1") THEN 1 ELSE IF StartsWith(text, "h2") THEN 2 ELSE 0

\* The title of a heading line: its text after the marker, stripped.
HeadingTitle(text) == SelectSeq(Tail(text), LAMBDA t : t.k \notin {"nl", "sp"})

\* The heading path after a heading of the given level: the titles of the
\* levels above it that are open, then its own.
PushHeading(section, level, title) ==
    Append(SubSeq(section, 1, IF Len(section) < level - 1 THEN Len(section)
                              ELSE level - 1),
           title)

RECURSIVE ReadLines(_, _, _, _)
\* MarkdownReader: the records of the lines of file from the n-th on, given
\* the code-region flag and the heading path before that line.
ReadLines(file, n, code, section) ==
    IF n > Len(file) THEN <<>>
    ELSE LET text == file[n]
             code2 == IF StartsWith(text, "fence") THEN ~code ELSE code
             section2 == IF HeadingLevel(text) > 0
                         THEN PushHeading(section, HeadingLevel(text),
                                          HeadingTitle(text))
                         ELSE section
         IN  <<[text |-> text, is_code_block |-> code2,
                current_section |-> section2, is_last_line |-> n = Len(file)]>>
             \o ReadLines(file, n + 1, code2, section2)

\* MarkdownReader.from_file(note.path)
FromFile(file) == ReadLines(file, 1, FALSE, <<>>)

\* Zettelkasten.get_backlinks(nid): the note's backlinks, empty if absent.
GetBacklinks(nid) == IF nid \in zid2zettel THEN backlinks[nid] ELSE {}

\* --------------------------------------------------------------- pipeline
\* out_lines[:-1]
DropLast(ls) == IF ls = <<>> THEN <<>> ELSE SubSeq(ls, 1, Len(ls) - 1)

\* The text of the line before the current one, as the loop left it.
PrevText == md_lines[line_i - 1].text

\* The guard of the fix-up of a stale tag line: a tag line inside a code
\* region.
StaleTagLine(l) == l.is_code_block /\ HasTagMark(l.text)

\* The guard of the header restyling for an underline that starts with the
\* piece of text k ("===" or "---").
IsUnderline(l, text, k) ==
    /\ line_i - 1 > 1
    /\ ~l.is_code_block
    /\ StartsWith(text, k)
    /\ ~IsBlank(PrevText)

\* What the two header restylings make of out_lines and of the line's text.
Restyle(l, out) ==
    LET a == IF IsUnderline(l, l.text, "eq")
             THEN [out |-> DropLast(out), text |-> <<Tok("h1", 0)>> \o PrevText]
             ELSE [out |-> out, text |-> l.text]
    IN  IF IsUnderline(l, a.text, "dash")
        THEN [out |-> DropLast(a.out), text |-> <<Tok("h2", 0)>> \o PrevText]
        ELSE a

\* The lines inserted after a level-1 heading of a note that had no tags.
InsertTags(l) ==
    IF /\ note_tags = {}
       /\ line_i - 1 >= 1
       /\ StartsWith(PrevText, "h1")
       /\ ~l.is_code_block
       /\ TagTransform({}) # {}
    THEN <<BlankLine, FormatTags(TagTransform({}))>>
    ELSE <<>>

\* A tag line outside a code region.
IsTagLine(l, text) == HasTagMark(text) /\ ~l.is_code_block

\* Removing old autogenerated links, then adding new ones.
Redecorate(text) ==
    LET stripped == RemoveAutogen(text)
    IN  AddNewLinks(stripped, FindLinks(stripped))

\* A line of an old backlinks section.
InBacklinksSection(l) ==
    /\ Len(l.current_section) = 2
    /\ l.current_section[2] = <<Tok("backlinks", 0)>>

\* The lines that separate the new backlinks section from the output so far.
Spacing(out) ==
    IF out = <<>> THEN <<>>
    ELSE IF out[Len(out)] = BlankLine THEN <<>>
    ELSE IF EndsWithNL(out[Len(out)]) THEN <<BlankLine>>
    ELSE <<BlankLine, BlankLine>>

RECURSIVE Bullets(_)
\* One line "* " + _format_link(note, backlink) + "\n" per backlink.
Bullets(zids) ==
    IF zids = <<>> THEN <<>>
    ELSE <<<<Tok("bullet", 0)>> \o FormatLink(Head(zids)) \o <<NL>>>>
         \o Bullets(Tail(zids))

HeadingBacklinks == <<Tok("h2", 0), Tok("backlinks", 0), NL>>

\* The new backlinks section, added after the last line.
BacklinksSection(l, out) ==
    IF l.is_last_line /\ GetBacklinks(Nid) # {}
    THEN out \o Spacing(out) \o <<HeadingBacklinks, BlankLine>>
             \o Bullets(Sorted(GetBacklinks(Nid)))
    ELSE out

\* One pass of transform's loop over line l: the new out_lines and the text
\* the line is left with.
LineStep(l, out) ==
    IF StaleTagLine(l)
    THEN [out |-> IF line_i - 1 >= 1 /\ IsBlank(PrevText) THEN DropLast(out) ELSE out,
          text |-> l.text]
    ELSE LET r == Restyle(l, out)
             out3 == r.out \o InsertTags(l)
             tags == TagTransform(ReadTags(r.text))
         IN  IF IsTagLine(l, r.text) /\ tags = {}
             THEN [out |-> out3, text |-> r.text]
             ELSE LET text3 == IF IsTagLine(l, r.text) THEN FormatTags(tags)
                               ELSE r.text
                      text4 == Redecorate(text3)
                      out4 == IF InBacklinksSection(l) THEN out3
                              ELSE Append(out3, text4)
                  IN  [out |-> BacklinksSection(l, out4), text |-> text4]

\* The note is constructed from its file: Zettel.__init__ starts with no
\* tags and calls analyze_file.
AnalyzeFile ==
    /\ tpc = "new"
    /\ note_tags' = AnalyzeTags(content, {})
    /\ tpc' = "ready"
    /\ UNCHANGED <<content, tag_transformer, md_lines, line_i, out_lines, run,
                   first_out>>
    /\ UNCHANGED <<gvars, lvars, tvars>>

\* DefaultTransformer.transform, up to its loop.
TransformStart ==
    /\ tpc = "ready"
    /\ md_lines' = FromFile(content)
    /\ line_i' = 1
    /\ out_lines' = <<>>
    /\ tpc' = "loop"
    /\ UNCHANGED <<content, note_tags, tag_transformer, run, first_out>>
    /\ UNCHANGED <<gvars, lvars, tvars>>

\* One pass of `for i, md_line in enumerate(md_reader.lines)`.
TransformLine ==
    /\ tpc = "loop" /\ line_i <= Len(md_lines)
    /\ LET r == LineStep(md_lines[line_i], out_lines) IN
          /\ out_lines' = r.out
          /\ md_lines' = [md_lines EXCEPT ![line_i].text = r.text]
    /\ line_i' = line_i + 1
    /\ UNCHANGED <<content, note_tags, tag_transformer, tpc, run, first_out>>
    /\ UNCHANGED <<gvars, lvars, tvars>>

\* transform returns "".join(out_lines) and transform_write writes it to the
\* note's path; after the first write the note is constructed again from
\* its file.
TransformWrite ==
    /\ tpc = "loop" /\ line_i > Len(md_lines)
    /\ content' = SplitLines(Flatten(out_lines), <<>>)
    /\ first_out' = IF run = 0 THEN Flatten(out_lines) ELSE first_out
    /\ run' = run + 1
    /\ tpc' = IF run = 0 THEN "new" ELSE "done"
    /\ UNCHANGED <<note_tags, tag_transformer, md_lines, line_i, out_lines>>
    /\ UNCHANGED <<gvars, lvars, tvars>>

\* A finalized collection in which the notes of B link to the note Nid, and
\* the file of Nid.
InitPipeline ==
    /\ zid2zettel = Zids
    /\ \E B \in SUBSET (Zids \ {Nid}) :
          links = [z \in Zids |-> IF z \in B THEN <<Nid>> ELSE <<>>]
    /\ depth = [z \in Zids |-> NoDepth]
    /\ backlinks = UpdateBacklinks.backlinks
    /\ finalized = TRUE
    /\ pc = "idle"
    /\ stack = <<>>
    /\ errors = [z \in Zids |-> 0]
    /\ expanded = [z \in Zids |-> 0]
    /\ pass = NoPass
    /\ content \in Files
    /\ note_tags = {}
    /\ tag_transformer \in TagTransformers
    /\ md_lines = <<>>
    /\ line_i = 1
    /\ out_lines = <<>>
    /\ tpc = "new"
    /\ run = 0
    /\ first_out = <<>>
    /\ NoReader
    /\ NoTagTrip

\* The note is constructed and transform_write is called on it, twice.
NextPipeline ==
    \/ AnalyzeFile
    \/ TransformStart
    \/ TransformLine
    \/ TransformWrite

SpecPipeline == InitPipeline /\ [][NextPipeline]_vars

\* ------------------------------------------------------------ tags as text
\* For the formatting and the reading of tags a text is a sequence of
\* characters, and a tag is the sequence of the characters of its name.

\* The longest tag name and the largest number of tags of a set.
MaxTagLen == 2
MaxTags == 2

\* The characters of tag names: characters that are not whitespace.
TagChars == {"#", "a", "b"}

\* ord(c)
Ord(c) ==
    CASE c = "\n" -> 10 [] c = " " -> 32 [] c = "#" -> 35 [] c = ":" -> 58
      [] c = "T" -> 84 [] c = "a" -> 97 [] c = "b" -> 98 [] c = "g" -> 103
      [] c = "s" -> 115 [] c = "t" -> 116

\* The tag names and the sets of tags.
TagNames == SeqsUpTo(TagChars, MaxTagLen)
RECURSIVE SetsUpTo(_, _)
\* The subsets of S with at most n elements.
SetsUpTo(S, n) ==
    IF n = 0 THEN {{}}
    ELSE LET smaller == SetsUpTo(S, n - 1)
         IN  smaller \cup {T \cup {x} : T \in smaller, x \in S}

TagSets == SetsUpTo(TagNames, MaxTags)

RECURSIVE StrLess(_, _)
\* s < t for strings: the order sorted() puts them in.
StrLess(s, t) ==
    IF t = <<>> THEN FALSE
    ELSE IF s = <<>> THEN TRUE
    ELSE IF s[1] # t[1] THEN Ord(s[1]) < Ord(t[1])
    ELSE StrLess(Tail(s), Tail(t))

RECURSIVE SortedStrs(_)
\* sorted(list(tags))
SortedStrs(S) ==
    IF S = {} THEN <<>>
    ELSE LET m == CHOOSE x \in S : \A y \in S \ {x} : StrLess(x, y)
         IN  <<m>> \o SortedStrs(S \ {m})

RECURSIVE JoinStrs(_, _)
\* sep.join("#" + tag for tag in ts)
JoinStrs(sep, ts) ==
    IF ts = <<>> THEN <<>>
    ELSE IF Len(ts) = 1 THEN <<"#">> \o ts[1]
    ELSE <<"#">> \o ts[1] \o sep \o JoinStrs(sep, Tail(ts))

\* "Tags: "
TagsPrefix == <<"T", "a", "g", "s", ":", " ">>

\* A variant that joins the tags with no separator.
FormatTagsUnspaced(tags) ==
    TagsPrefix \o JoinStrs(<<>>, SortedStrs(tags)) \o <<"\n">>

\* DefaultTransformer._format_tags, character by character.
FormatTagsStr(tags) ==
    TagsPrefix \o JoinStrs(<<" ">>, SortedStrs(tags)) \o <<"\n">>

\* Whitespace: what \S does not match.
IsSpace(c) == c \in {" ", "\n"}

RECURSIVE MatchEnd(_, _)
\* The position after the longest run of non-whitespace from position p on.
MatchEnd(text, p) ==
    IF p > Len(text) \/ IsSpace(text[p]) THEN p ELSE MatchEnd(text, p + 1)

RECURSIVE FindAllTags(_, _)
\* tag_regex.findall(text) from position p on: the matches of #\S*, left to
\* right, none overlapping.
FindAllTags(text, p) ==
    IF p > Len(text) THEN <<>>
    ELSE IF text[p] = "#"
         THEN <<SubSeq(text, p, MatchEnd(text, p + 1) - 1)>>
              \o FindAllTags(text, MatchEnd(text, p + 1))
         ELSE FindAllTags(text, p + 1)

\* str.lower
Lower(text) == [n \in 1..Len(text) |-> IF text[n] = "T" THEN "t" ELSE text[n]]

\* "tags: " in line.lower()
HasTagMarkStr(line) ==
    \E p \in 1..Len(line) :
        /\ p + 5 <= Len(line)
        /\ SubSeq(Lower(line), p, p + 5) = <<"t", "a", "g", "s", ":", " ">>

\* The tags Zettel.analyze_file takes from one line of a new note.
ReadTagsStr(line) ==
    IF HasTagMarkStr(line)
    THEN {Tail(t) : t \in Range(FindAllTags(line, 1))}
    ELSE {}

\* _format_tags(tags_in)
FormatTagsCall ==
    /\ tag_pc = "start"
    /\ tag_line' = FormatTagsStr(tags_in)
    /\ tag_pc' = "formatted"
    /\ UNCHANGED <<tags_in, tags_out>>
    /\ UNCHANGED <<gvars, pvars, lvars>>

\* The formatted line is read as the one line of a note.
ReadTagsCall ==
    /\ tag_pc = "formatted"
    /\ tags_out' = ReadTagsStr(tag_line)
    /\ tag_pc' = "read"
    /\ UNCHANGED <<tags_in, tag_line>>
    /\ UNCHANGED <<gvars, pvars, lvars>>

\* Any set of tags without whitespace.
InitTags ==
    /\ zid2zettel = {}
    /\ links = [z \in Zids |-> <<>>]
    /\ depth = [z \in Zids |-> NoDepth]
    /\ backlinks = [z \in Zids |-> {}]
    /\ finalized = FALSE
    /\ pc = "idle"
    /\ stack = <<>>
    /\ errors = [z \in Zids |-> 0]
    /\ expanded = [z \in Zids |-> 0]
    /\ pass = NoPass
    /\ NoPipeline
    /\ NoReader
    /\ tags_in \in TagSets
    /\ tag_line = <<>>
    /\ tags_out = {}
    /\ tag_pc = "start"

NextTags ==
    \/ FormatTagsCall
    \/ ReadTagsCall

SpecTags == InitTags /\ [][NextTags]_vars

\* ------------------------------------------------------------- the claims
RECURSIVE Reach(_)
\* The registered notes reached from the notes S by links that resolve.
Reach(S) ==
    LET T == S \cup {t \in zid2zettel : \E a \in S : t \in Range(links[a])}
    IN  IF T = S THEN S ELSE Reach(T)

\* The notes reachable from the root.
Reachable == IF ROOT \in zid2zettel THEN Reach({ROOT}) ELSE {}

\* finalize() has returned and nothing was registered since.
Finalized == pc = "idle" /\ finalized

\* The number of occurrences of z in the links of note a.
Occurrences(a, z) == Cardinality({i \in 1..Len(links[a]) : links[a][i] = z})

\* C1: after finalize(), for all registered notes A and B (A = B allowed),
\* A's id is in B's backlinks if and only if B's id occurs in A's links.
C1_BacklinksExact ==
    Finalized =>
        \A a \in zid2zettel, b \in zid2zettel :
            (a \in backlinks[b]) <=> (b \in Range(links[a]))

\* C1 witness: a finalized collection where a note that is not reachable
\* from the root links twice to another note and once to an unregistered id.
C1_Witness ==
    /\ Finalized
    /\ \E a \in zid2zettel, b \in zid2zettel :
          /\ a # b /\ a \notin Reachable
          /\ Occurrences(a, b) = 2
          /\ \E d \in Zids \ zid2zettel : links[a][1] = d
          /\ a \in backlinks[b]

\* The two-note collection of the example: the root links to 20230101000001
\* and 20230101000001 links back to the root.
TwoNoteCycle ==
    /\ zid2zettel = {ROOT, 1}
    /\ links[ROOT] = <<1>>
    /\ links[1] = <<ROOT>>

\* C2: after finalize() on a collection that contains the root (all depths
\* absent beforehand) the root's depth is 0; in the two-note cycle the root's
\* depth is 0, the other note's depth is 1 and each note's backlinks are
\* exactly the other note's id.
C2_RootDepthZero ==
    (Finalized /\ pass.fresh /\ ROOT \in zid2zettel) =>
        /\ depth[ROOT] = 0
        /\ TwoNoteCycle =>
              /\ depth[1] = 1
              /\ backlinks[ROOT] = {1}
              /\ backlinks[1] = {ROOT}

\* C3: during one finalize() pass, a depth that has been assigned is not
\* changed by any later step of the traversal.
C3_FirstAssignmentWins ==
    [][\A z \in Zids :
          (pc = "depths" /\ depth[z] # NoDepth) => depth'[z] = depth[z]]_vars

\* C4: finalize() terminates, and the depth traversal expands each
\* registered note's outgoing links at most once.
C4_Terminates ==
    /\ [](\A z \in Zids : expanded[z] <= 1)
    /\ (pc = "depths") ~> (pc = "idle")

\* C4 witness: finalize() has returned on a collection with a cycle through
\* the root, a self-link, a duplicate link or a dangling link, each behind a
\* note whose links were expanded.
C4_Witness ==
    /\ Finalized
    /\ \E a \in zid2zettel :
          /\ expanded[a] = 1
          /\ \/ a # ROOT /\ ROOT \in Range(links[a])
             \/ a \in Range(links[a])
             \/ \E z \in Zids : Occurrences(a, z) = 2
             \/ \E d \in Zids \ zid2zettel : d \in Range(links[a])

\* C5: after the first finalize() on notes that all start without a depth, a
\* registered note has a depth if and only if it is reachable from the root;
\* if the root is not registered, no note has a depth.
C5_DepthIffReachable ==
    (Finalized /\ pass.fresh) =>
        /\ \A z \in zid2zettel : (depth[z] # NoDepth) <=> (z \in Reachable)
        /\ ROOT \notin zid2zettel => \A z \in Zids : depth[z] = NoDepth

\* C5 witness: after such a finalize(), a note the root links to has a
\* depth, and a registered note that links to it but is not linked from the
\* root's side has none.
C5_Witness ==
    /\ Finalized /\ pass.fresh
    /\ \E a \in zid2zettel \ {ROOT}, u \in zid2zettel \ {ROOT} :
          /\ a # u
          /\ a \in Range(links[ROOT]) /\ a \in Range(links[u])
          /\ depth[a] # NoDepth /\ depth[u] = NoDepth

\* C6: finalize() recomputes depth from the current note set: after any
\* sequence of registrations and finalize() calls that ends with finalize(),
\* every note reachable from the root has a depth.
C6_DepthRecomputed ==
    Finalized => \A z \in Reachable : depth[z] # NoDepth

\* C7: a finalize() called right after a finalize(), with no registration
\* in between, leaves every note's backlinks and depth as they were.
C7_FinalizeIdempotent ==
    (Finalized /\ pass.again) =>
        /\ depth = pass.depth0
        /\ backlinks = pass.backlinks0

\* C7 witness: a second finalize() has returned on a collection with a cycle
\* through the root, where depths and backlinks are not trivial.
C7_Witness ==
    /\ Finalized /\ pass.again
    /\ \E a \in zid2zettel \ {ROOT} :
          /\ ROOT \in Range(links[a]) /\ a \in Range(links[ROOT])
          /\ depth[a] > 0 /\ backlinks[a] # {}

\* The collection holds exactly one link occurrence whose target d is not
\* registered.
OneDanglingLink(d) ==
    /\ d \notin zid2zettel
    /\ \E a \in zid2zettel :
          /\ Occurrences(a, d) = 1
          /\ \A b \in zid2zettel \ {a} : Occurrences(b, d) = 0

\* The diagnostics recorded for links to d: those naming d, less the one the
\* default call _update_depths() logs for a root that is not registered.
LinkDiagnostics(d) ==
    errors[d] - (IF d = ROOT /\ ROOT \notin zid2zettel THEN 1 ELSE 0)

\* C8: with one link to an unregistered id, finalize() completes, adds no
\* backlink for that link, computes backlinks and depth for the other notes,
\* and records exactly one diagnostic for that link.
C8_OneDiagnostic ==
    \A d \in Zids :
        (Finalized /\ pass.fresh /\ OneDanglingLink(d)) =>
            /\ LinkDiagnostics(d) = 1
            /\ backlinks[d] = {}
            /\ \A a \in zid2zettel, b \in zid2zettel :
                  (a \in backlinks[b]) <=> (b \in Range(links[a]))
            /\ \A z \in zid2zettel : (depth[z] # NoDepth) <=> (z \in Reachable)


\* C9: running transform, writing the result back, parsing the note again and
\* running transform again yields the text of the first run.
C9_PipelineIdempotent ==
    (tpc = "done") => Flatten(out_lines) = first_out

\* The line the loop is about to process reaches the end of the loop body:
\* neither of the two `continue` statements is taken.
ReachesEnd(l) ==
    /\ ~StaleTagLine(l)
    /\ ~(IsTagLine(l, Restyle(l, out_lines).text)
           /\ TagTransform(ReadTags(Restyle(l, out_lines).text)) = {})

\* The new section: the heading, a blank line, one bullet per backlink in
\* ascending order.
NewSection == <<HeadingBacklinks, BlankLine>> \o Bullets(Sorted(GetBacklinks(Nid)))

\* The lines out end with the new section, and what precedes the section, if
\* it holds anything but blank lines, ends with exactly one blank line.
EndsWithSection(out) ==
    LET n == Len(out) - Len(NewSection) IN
    /\ n >= 0
    /\ SubSeq(out, n + 1, Len(out)) = NewSection
    /\ (\E m \in 1..n : out[m] # BlankLine) =>
          /\ out[n] = BlankLine
          /\ out[n - 1] # BlankLine
          /\ \A m \in 1..n : EndsWithNL(out[m])

\* C10: when the backlinks-section generation runs on the last line of a note
\* with at least one backlink, the output ends with exactly one blank line
\* after the prior content, the line "## Backlinks", one blank line and one
\* bullet per backlink id in ascending order.
C10_BacklinksSection ==
    [][(/\ tpc = "loop" /\ line_i <= Len(md_lines)
        /\ md_lines[line_i].is_last_line
        /\ GetBacklinks(Nid) # {}
        /\ ReachesEnd(md_lines[line_i]))
       => EndsWithSection(SplitLines(Flatten(out_lines'), <<>>))]_vars

RECURSIVE Dist(_, _, _)
\* The length of the shortest path of resolving links from the notes S, which
\* are at distance k from the root, to the reachable note z.
Dist(S, k, z) ==
    IF z \in S THEN k
    ELSE Dist(S \cup {t \in zid2zettel : \E a \in S : t \in Range(links[a])}, k + 1, z)

\* No registered note links to the root, so the root's own depth is not
\* assigned a second time.
NoLinkToRoot == \A a \in zid2zettel : ROOT \notin Range(links[a])

\* C11: after finalize() on a fresh collection, the depth of every note
\* reachable from the root equals the length of the shortest path of links
\* from the root to that note.  Stated for the collections in which no note
\* links to the root.
C11_ShortestPath ==
    (Finalized /\ pass.fresh /\ NoLinkToRoot) =>
        \A z \in Reachable : depth[z] = Dist({ROOT}, 0, z)

RECURSIVE FirstTagLine(_)
\* The tags on the first line of a file that contains the tag marker; no
\* tags when no line contains it.
FirstTagLine(file) ==
    IF file = <<>> THEN {}
    ELSE IF HasTagMark(Head(file)) THEN ReadTags(Head(file))
    ELSE FirstTagLine(Tail(file))

\* The number of lines of the file that contain the tag marker.
TagLines(file) == Cardinality({n \in 1..Len(file) : HasTagMark(file[n])})

\* C12: a note's tags are those of the first line of its content that
\* contains the tag marker; later lines that contain it do not change them.
C12_FirstTagLine ==
    (tpc = "ready" /\ TagLines(content) >= 2) =>
        note_tags = FirstTagLine(content)

\* The line the loop is about to process is an underline of "=" characters
\* outside a code region, not the first line of the file, below a line of
\* plain text.
SetextH1Case ==
    /\ tpc = "loop" /\ line_i <= Len(md_lines) /\ line_i >= 2
    /\ md_lines[line_i].text = EqLine
    /\ ~md_lines[line_i].is_code_block
    /\ ~InBacklinksSection(md_lines[line_i])
    /\ md_lines[line_i - 1].text \in {TextLine, SubSeq(TextLine, 1, 1)}

\* The same for an underline of "-" characters.
SetextH2Case ==
    /\ tpc = "loop" /\ line_i <= Len(md_lines) /\ line_i >= 2
    /\ md_lines[line_i].text = DashLine
    /\ ~md_lines[line_i].is_code_block
    /\ ~InBacklinksSection(md_lines[line_i])
    /\ md_lines[line_i - 1].text \in {TextLine, SubSeq(TextLine, 1, 1)}

\* The step took the last line off out and emitted the marker k followed by
\* the previous line's text in its place.
Retitled(out, out2, k) ==
    LET expected == Append(DropLast(out), <<Tok(k, 0)>> \o PrevText)
    IN  /\ Len(out2) >= Len(expected)
        /\ SubSeq(out2, 1, Len(expected)) = expected

\* C15: for every line after the first that consists of "=" characters, is
\* outside a code region and follows a non-blank line, the pipeline retracts
\* the emitted previous line and emits "# " and the previous line's text
\* ("## " for a line of "-" characters), also when the heading text is the
\* first line of the file and the underline the second.
C15_SetextEverywhere ==
    [][/\ SetextH1Case => Retitled(out_lines, out_lines', "h1")
       /\ SetextH2Case => Retitled(out_lines, out_lines', "h2")]_vars

\* The lines out end with the freshly generated section.
HasNewSection(out) ==
    /\ Len(out) >= Len(NewSection)
    /\ SubSeq(out, Len(out) - Len(NewSection) + 1, Len(out)) = NewSection

\* C16: for a note with at least one backlink and a file of at least one
\* line, the text transform returns contains a freshly generated
\* "## Backlinks" section, whichever rule handles the last line of the file.
C16_SectionAlways ==
    (/\ tpc = "loop" /\ line_i > Len(md_lines)
     /\ Len(md_lines) >= 1
     /\ GetBacklinks(Nid) # {})
    => HasNewSection(out_lines)

\* The number of autogen-marked links for the id of the link at position n
\* of text that directly follow that link.
AutogenAfter(text, n) ==
    Cardinality({m \in (n + 1)..Len(text) :
                    \A j \in (n + 1)..m : text[j] = Tok("autogen", text[n].v)})

\* Every id-link of text whose id resolves is followed by exactly one
\* autogen-marked link, every other id-link by none.
Decorated(text) ==
    \A n \in 1..Len(text) :
        text[n].k = "link" =>
            AutogenAfter(text, n) = (IF text[n].v \in zid2zettel THEN 1 ELSE 0)

\* The line the loop is about to process reaches the link rule and holds at
\* least one id-link.
LinkCase ==
    /\ tpc = "loop" /\ line_i <= Len(md_lines)
    /\ ReachesEnd(md_lines[line_i])
    /\ FindLinks(md_lines[line_i].text) # <<>>

\* C17: after the link rule has processed a line, every id-link on it whose
\* id resolves is followed by exactly one autogen-marked titled link and
\* every id-link whose id does not resolve is unchanged, for any number of
\* id-links on the line, the same id-link occurring twice included.
C17_LinksDecoratedOnce ==
    [][LinkCase => Decorated(md_lines'[line_i].text)]_vars

\* out is a prefix of out2: the step took no line off out.
IsPrefix(out, out2) ==
    Len(out) <= Len(out2) /\ SubSeq(out2, 1, Len(out)) = out

\* C18: whenever the stale-tag-line rule or the header restyling retracts the
\* last emitted line, that line is the emitted copy of the immediately
\* preceding input line; no other emitted line is removed, also when the
\* preceding input line was itself dropped.
C18_RetractsPreviousLine ==
    [][(/\ tpc = "loop" /\ line_i <= Len(md_lines)
        /\ ~IsPrefix(out_lines, out_lines'))
       => /\ line_i >= 2
          /\ out_lines[Len(out_lines)] = PrevText]_vars

\* C19: after finalize(), no note's backlinks contain the note's own id, also
\* when the note's links hold its own id.
C19_NoSelfBacklink ==
    Finalized => \A z \in zid2zettel : z \notin backlinks[z]

\* C14: registration is last-write-wins.  After a note was registered under
\* an id that already held a note, the id holds the later note, and after the
\* next finalize() the id is a backlink of exactly the targets of the later
\* note's links; the links that only the replaced note had contribute none.
C14_LastWriteWins ==
    (Finalized /\ overwritten # NoOverwrite) =>
        LET a == overwritten.zid IN
        /\ a \in zid2zettel
        /\ \A b \in overwritten.lost : a \notin backlinks[b]
        /\ \A b \in zid2zettel : (a \in backlinks[b]) <=> (b \in Range(links[a]))

\* C14 witness: finalize() has returned after a note was replaced by a note
\* without its link to a registered note, which has lost that backlink.
C14_Witness ==
    /\ Finalized /\ overwritten # NoOverwrite
    /\ \E b \in overwritten.lost :
          /\ b \in zid2zettel
          /\ overwritten.zid \notin backlinks[b]

\* The line is "Tags: ", then the tags found on it, each with its "#", in
\* strictly ascending order and separated by single spaces, then "\n".
IsSortedTagLine(line) ==
    LET ms == FindAllTags(line, 1)
    IN  /\ \A i \in 1..Len(ms), j \in 1..Len(ms) :
              i < j => StrLess(Tail(ms[i]), Tail(ms[j]))
        /\ line = TagsPrefix \o JoinStrs(<<" ">>, [n \in 1..Len(ms) |-> Tail(ms[n])])
                    \o <<"\n">>

\* C13: for every set of tags without whitespace, reading the line that
\* _format_tags makes of the set gives the set back; the line lists the tags
\* in ascending order, each with "#", after "Tags: ", so that the tags a and
\* b give "Tags: #a #b".
C13_TagRoundTrip ==
    /\ tag_pc = "read" => tags_out = tags_in
    /\ tag_pc # "start" =>
          /\ IsSortedTagLine(tag_line)
          /\ tags_in = {<<"a">>, <<"b">>} =>
                tag_line = <<"T", "a", "g", "s", ":", " ", "#", "a", " ", "#", "b", "\n">>

\* C13 witness: a set of two tags, one of them with a "#" in its name, has
\* been formatted and read back.
C13_Witness ==
    /\ tag_pc = "read"
    /\ Cardinality(tags_in) = 2
    /\ \E t \in tags_in : "#" \in Range(t)
    /\ tags_out = tags_in

\* Every registered note's backlinks are those computed from the links of the
\* notes that are registered now.
BacklinksCurrent ==
    \A b \in zid2zettel : backlinks[b] = {a \in zid2zettel : b \in Range(links[a])}

\* C20: in every sequence of add_zettels, finalize, transform_all and
\* dot_graph calls, every add_zettels (the one step that begins and ends with
\* no method running) leaves the finalized flag clear, and whenever
\* transform_all or dot_graph reads the notes, the flag is set and every
\* note's backlinks are those computed from the links of the notes registered
\* at that time.
C20_ReadAfterFinalize ==
    /\ [][(pc = "idle" /\ pc' = "idle" /\ reader' = reader) => ~finalized']_vars
    /\ [](pc = "read" => finalized /\ BacklinksCurrent)

\* C20 witness: dot_graph or transform_all reads the notes after a note was
\* registered on a collection that had been finalized before: the note has
\* the backlink of the root, and no depth from the earlier finalize().
C20_Witness ==
    /\ pc = "read"
    /\ \E b \in zid2zettel \ {ROOT} :
          /\ ROOT \in backlinks[b]
          /\ depth[ROOT] # NoDepth
          /\ depth[b] = NoDepth

=============================================================================
